---- MODULE Spec2Model ----
(***************************************************************************)
(* A model of four pieces of the repository:                               *)
(*   - query() of examples/bvh_driver/bvh_driver.cpp, the two-pass batched *)
(*     query driver that fills a CSR pair (offset, indices);               *)
(*   - StaticVector / UnmanagedStaticVector of misc/ArborX_Containers.hpp; *)
(*   - CartesianGrid of details/ArborX_DetailsCartesianGrid.hpp;           *)
(*   - main / main_ of examples/bvh_driver/bvh_driver.cpp.                 *)
(* Each piece has its own specification (SpecQuery, SpecVector, SpecGrid,  *)
(* SpecDriver); the variables of the other pieces stay at their idle value.*)
(* Views are functions over 0..extent-1, as the code indexes them.         *)
(***************************************************************************)
EXTENDS Integers, Sequences, FiniteSets, TLC

(***************************************************************************)
(* Bounds of the model.                                                    *)
(***************************************************************************)
\* largest number of predicates handed to query()
MaxQueries == 2
\* largest number of matches the traversal emits for one predicate
MaxMatches == 2
\* number of primitives in the tree (primitive indices are 0..NumPrimitives-1)
NumPrimitives == 2
\* largest extent of the views the caller hands to query()
MaxStale == 3
\* first of the (non-zero) values a non-empty caller view holds on entry
StaleValue == 5
\* N of StaticVector<T, N>
StaticN == 2
\* largest max_size an UnmanagedStaticVector is constructed with
MaxCap == 2
\* number of distinct values pushed into a vector
NumValues == 2
\* width in bits of the model's size_t
SizeBits == 3
\* largest extent of the grid's bounds along an axis, in length units
MaxDelta == 2
\* largest cell size handed to a grid constructor (the smallest is -1)
MaxSpacing == 2

(***************************************************************************)
(* State of query().                                                       *)
(***************************************************************************)
VARIABLES
  n_queries,    \* queries.extent(0)
  emit,         \* emit[i]: what the traversal emits for queries(i), in order
  offset,       \* the view offset
  indices,      \* the view indices
  qpc,          \* position of the host thread in query()
  launched,     \* kernels the host has dispatched
  initDone,     \* iterations of the "initialize offset" kernel that completed
  countDone,    \* iterations of the first-pass kernel that completed
  scanSplit,    \* the scan kernel's work split: [0,scanSplit) and [scanSplit,n]
  scanPass,     \* per chunk of the scan: "idle","reduce","reduced","final","done"
  scanPos,      \* per chunk: next index the chunk's thread handles
  scanUpd,      \* per chunk: the thread's running `update`
  scanTotal,    \* per chunk: the chunk's total after its non-final pass
  fillCount,    \* per query: the local `count` of the second-pass lambda
  fillDone,     \* iterations of the second-pass kernel that completed
  countWrites,  \* history: stores of the first pass, [task, slot]
  fillWrites,   \* history: stores of the second pass, [task, slot, k, base, extent]
  oob,          \* history: some kernel indexed a view outside its extent
  entry         \* history: the extents of offset and indices on entry

qvars == <<n_queries, emit, offset, indices, qpc, launched, initDone, countDone,
           scanSplit, scanPass, scanPos, scanUpd, scanTotal, fillCount, fillDone,
           countWrites, fillWrites, oob, entry>>

(***************************************************************************)
(* State of a StaticVector / UnmanagedStaticVector.                        *)
(***************************************************************************)
VARIABLES
  v_kind,       \* "owned" (StaticVector) or "borrowed" (UnmanagedStaticVector)
  v_max_size,   \* borrowed: the field _max_size; owned: unused, 0
  v_size,       \* the field _size
  v_data,       \* the storage, _data[N] or the caller's array behind _ptr
  v_pc,         \* "live", or "aborted" once an assertion has failed
  v_last,       \* the last member function called
  v_ret,        \* what the last accessor returned
  v_past,       \* history: an element was stored past the end of the storage
  v_cap0,       \* history: the capacity fixed at compile time / construction
  v_pos,        \* the argument of the last operator[]
  v_prevop,     \* history: the member function called before the last one
  v_model,      \* history: the values pushed and not yet popped or cleared
  v_snap        \* history: size and elements [0, size) before the last push

vvars == <<v_kind, v_max_size, v_size, v_data, v_pc, v_last, v_ret, v_past, v_cap0,
           v_pos, v_prevop, v_model, v_snap>>

(***************************************************************************)
(* State of a CartesianGrid<DIM>.                                          *)
(***************************************************************************)
VARIABLES
  g_pc,         \* "new", "build", "check", "constructed" or "failed"
  g_ctor,       \* which constructor runs: "scalar" or "per_axis"
  g_bounds,     \* the field _bounds: [min, max], each a point
  g_arg,        \* the constructor's argument h, per axis
  g_h,          \* the field _h
  g_n,          \* the field _n
  g_d,          \* buildGrid's loop variable d
  g_op,         \* the member function last called on the constructed grid
  g_point,      \* the argument of the last cellIndex
  g_index,      \* the result of the last cellIndex / argument of the last cellBox
  g_box         \* the result of the last cellBox

gvars == <<g_pc, g_ctor, g_bounds, g_arg, g_h, g_n, g_d, g_op, g_point, g_index,
           g_box>>

(***************************************************************************)
(* State of the example driver's main.                                     *)
(***************************************************************************)
VARIABLES
  d_pc,          \* position in main / main_
  d_argv,        \* the command line: [kind, node, mode]
  d_enabled,     \* the node types the build enables (KOKKOS_HAVE_...)
  d_fault,       \* whether the run of main_ throws (allocation, backend error)
  d_initialized, \* Kokkos::initialize has been called
  d_finalized,   \* Kokkos::finalize has been called
  d_success,     \* the local `success`
  d_ran,         \* the search main_ ran: "knn", "radius" or "none"
  d_exit         \* the value main returned, -1 before it returns

dvars == <<d_pc, d_argv, d_enabled, d_fault, d_initialized, d_finalized,
           d_success, d_ran, d_exit>>

vars == <<qvars, vvars, gvars, dvars>>

\* the frame of each piece: the other pieces do not move
QueryOnly == UNCHANGED <<vvars, gvars, dvars>>

VectorOnly == UNCHANGED <<qvars, gvars, dvars>>

GridOnly == UNCHANGED <<qvars, vvars, dvars>>

DriverOnly == UNCHANGED <<qvars, vvars, gvars>>

(***************************************************************************)
(* Views.                                                                  *)
(***************************************************************************)
Extent(view) == Cardinality(DOMAIN view)

\* Kokkos::resize: the new view is zero-initialised, then the common prefix
\* of the old view is copied into it.
Resize(view, n) == [i \in 0..(n - 1) |-> IF i \in DOMAIN view THEN view[i] ELSE 0]

\* what a caller's view of extent len holds on entry
StaleView(len) == [i \in 0..(len - 1) |-> StaleValue + i]

Chunks == {1, 2}

(***************************************************************************)
(* The traversal (details::TreeTraversal<NO>::query): it calls the visitor *)
(* once per match, in order, and returns the number of matches.  The BVH   *)
(* and the predicates are immutable, so both passes see the same result.   *)
(***************************************************************************)
EmitSeqs == UNION {[1..k -> 0..(NumPrimitives - 1)] : k \in 0..MaxMatches}

TraversalEmits(i) == emit[i]

TraversalCount(i) == Len(emit[i])

(***************************************************************************)
(* The lambdas of query().                                                 *)
(***************************************************************************)
\* a first pass that stores the count of query i one slot further
CountSlotNext(i) == i + 1

\* the slot the first pass stores into: offset( i )
CountSlot(i) == i

\* a scan lambda that stores `update` on every pass, not on the final one only
ScanBodyAlwaysStores(off, i, update, final_pass) ==
  LET offset_i == off[i]
  IN  [off    |-> [off EXCEPT ![i] = update],
       update |-> update + offset_i]

\* a scan lambda that adds before it stores: an inclusive scan
ScanBodyInclusive(off, i, update, final_pass) ==
  LET offset_i == off[i]
  IN  [off    |-> IF final_pass THEN [off EXCEPT ![i] = update + offset_i] ELSE off,
       update |-> update + offset_i]

\* the body of the scan lambda: returns the view and `update` after the call
ScanBody(off, i, update, final_pass) ==
  LET offset_i == off[i]
  IN  [off    |-> IF final_pass THEN [off EXCEPT ![i] = update] ELSE off,
       update |-> update + offset_i]

\* a second pass that forgets to advance its local counter
FillSlotNoIncrement(off, i, count) == off[i]

\* the slot the second pass stores into: indices( offset( i ) + count++ )
FillSlot(off, i, count) == off[i] + count

\* the extent indices is resized to: total_count( 0 ), the last entry of offset
TotalCount(off) == off[n_queries]

(***************************************************************************)
(* Kernels and fences.                                                     *)
(***************************************************************************)
AllDone(kernel) ==
  CASE kernel = "init"  -> initDone = 0..n_queries
    [] kernel = "count" -> countDone = 0..(n_queries - 1)
    [] kernel = "scan"  -> \A c \in Chunks : scanPass[c] = "done"
    [] kernel = "fill"  -> fillDone = 0..(n_queries - 1)

\* a fence that does not wait
FenceNoWait(kernel) == TRUE

\* Kokkos::fence(): the host blocks until the dispatched kernel has completed
Fence(kernel) == AllDone(kernel)

ChunkBegin(c) == IF c = 1 THEN 0 ELSE scanSplit

ChunkEnd(c) == IF c = 1 THEN scanSplit ELSE n_queries + 1

QueryInit ==
  /\ n_queries \in 0..MaxQueries
  /\ emit \in [0..(n_queries - 1) -> EmitSeqs]
  /\ offset \in {StaleView(l) : l \in 0..MaxStale}
  /\ indices \in {StaleView(l) : l \in 0..MaxStale}
  /\ qpc = "start"
  /\ launched = {}
  /\ initDone = {}
  /\ countDone = {}
  /\ scanSplit = 0
  /\ scanPass = [c \in Chunks |-> "idle"]
  /\ scanPos = [c \in Chunks |-> 0]
  /\ scanUpd = [c \in Chunks |-> 0]
  /\ scanTotal = [c \in Chunks |-> 0]
  /\ fillCount = [i \in 0..(n_queries - 1) |-> 0]
  /\ fillDone = {}
  /\ countWrites = {}
  /\ fillWrites = {}
  /\ oob = FALSE
  /\ entry = [offset |-> Extent(offset), indices |-> Extent(indices)]

\* line 76: Kokkos::resize( offset, n_queries + 1 )
ResizeOffset ==
  /\ qpc = "start"
  /\ offset' = Resize(offset, n_queries + 1)
  /\ qpc' = "init"
  /\ UNCHANGED <<n_queries, emit, indices, launched, initDone, countDone,
                 scanSplit, scanPass, scanPos, scanUpd, scanTotal, fillCount,
                 fillDone, countWrites, fillWrites, oob, entry>>
  /\ QueryOnly

\* lines 77-80: dispatch of the "initialize offset" kernel
LaunchInit ==
  /\ qpc = "init"
  /\ launched' = launched \cup {"init"}
  /\ qpc' = "fence_init"
  /\ UNCHANGED <<n_queries, emit, offset, indices, initDone, countDone,
                 scanSplit, scanPass, scanPos, scanUpd, scanTotal, fillCount,
                 fillDone, countWrites, fillWrites, oob, entry>>
  /\ QueryOnly

\* line 80: the kernel's body is the expression statement `offset[i];`
\* it reads the entry and stores nothing
InitTask(i) ==
  /\ "init" \in launched
  /\ i \in (0..n_queries) \ initDone
  /\ initDone' = initDone \cup {i}
  /\ oob' = (oob \/ i \notin DOMAIN offset)
  /\ UNCHANGED <<n_queries, emit, offset, indices, qpc, launched, countDone,
                 scanSplit, scanPass, scanPos, scanUpd, scanTotal, fillCount,
                 fillDone, countWrites, fillWrites, entry>>
  /\ QueryOnly

\* line 81
FenceInit ==
  /\ qpc = "fence_init"
  /\ Fence("init")
  /\ qpc' = "count"
  /\ UNCHANGED <<n_queries, emit, offset, indices, launched, initDone, countDone,
                 scanSplit, scanPass, scanPos, scanUpd, scanTotal, fillCount,
                 fillDone, countWrites, fillWrites, oob, entry>>
  /\ QueryOnly

\* lines 87-93: dispatch of the first pass
LaunchCount ==
  /\ qpc = "count"
  /\ launched' = launched \cup {"count"}
  /\ qpc' = "fence_count"
  /\ UNCHANGED <<n_queries, emit, offset, indices, initDone, countDone,
                 scanSplit, scanPass, scanPos, scanUpd, scanTotal, fillCount,
                 fillDone, countWrites, fillWrites, oob, entry>>
  /\ QueryOnly

\* lines 90-93: offset( i ) = TreeTraversal::query( bvh, queries( i ), no-op )
CountTask(i) ==
  /\ "count" \in launched
  /\ i \in (0..(n_queries - 1)) \ countDone
  /\ LET slot == CountSlot(i)
     IN  /\ IF slot \in DOMAIN offset
              THEN offset' = [offset EXCEPT ![slot] = TraversalCount(i)]
              ELSE offset' = offset
         /\ oob' = (oob \/ slot \notin DOMAIN offset)
         /\ countWrites' = countWrites \cup {[task |-> i, slot |-> slot]}
  /\ countDone' = countDone \cup {i}
  /\ UNCHANGED <<n_queries, emit, indices, qpc, launched, initDone,
                 scanSplit, scanPass, scanPos, scanUpd, scanTotal, fillCount,
                 fillDone, fillWrites, entry>>
  /\ QueryOnly

\* line 94
FenceCount ==
  /\ qpc = "fence_count"
  /\ Fence("count")
  /\ qpc' = "scan"
  /\ UNCHANGED <<n_queries, emit, offset, indices, launched, initDone, countDone,
                 scanSplit, scanPass, scanPos, scanUpd, scanTotal, fillCount,
                 fillDone, countWrites, fillWrites, oob, entry>>
  /\ QueryOnly

\* lines 100-108: dispatch of the scan over [0, n_queries + 1).  The range is
\* split in two chunks; each chunk's thread first runs the lambda over its
\* chunk with final_pass = false, then, knowing the totals of the chunks
\* before it, runs it again with final_pass = true.  (A split that leaves
\* one chunk empty is the serial scan.)
LaunchScan ==
  /\ qpc = "scan"
  /\ launched' = launched \cup {"scan"}
  /\ \E s \in 0..(n_queries + 1) :
       /\ scanSplit' = s
       /\ scanPass' = [c \in Chunks |->
            IF (IF c = 1 THEN 0 ELSE s) = (IF c = 1 THEN s ELSE n_queries + 1)
              THEN "reduced" ELSE "reduce"]
       /\ scanPos' = [c \in Chunks |-> IF c = 1 THEN 0 ELSE s]
  /\ scanUpd' = [c \in Chunks |-> 0]
  /\ scanTotal' = [c \in Chunks |-> 0]
  /\ qpc' = "fence_scan"
  /\ UNCHANGED <<n_queries, emit, offset, indices, initDone, countDone,
                 fillCount, fillDone, countWrites, fillWrites, oob, entry>>
  /\ QueryOnly

\* one call of the scan lambda with final_pass = false
ScanReduceStep(c) ==
  /\ "scan" \in launched
  /\ scanPass[c] = "reduce"
  /\ scanPos[c] < ChunkEnd(c)
  /\ LET r == ScanBody(offset, scanPos[c], scanUpd[c], FALSE)
         last == (scanPos[c] + 1 = ChunkEnd(c))
     IN  /\ offset' = r.off
         /\ scanUpd' = [scanUpd EXCEPT ![c] = r.update]
         /\ scanPos' = [scanPos EXCEPT ![c] = scanPos[c] + 1]
         /\ scanTotal' = [scanTotal EXCEPT ![c] = IF last THEN r.update ELSE @]
         /\ scanPass' = [scanPass EXCEPT ![c] = IF last THEN "reduced" ELSE @]
  /\ UNCHANGED <<n_queries, emit, indices, qpc, launched, initDone, countDone,
                 scanSplit, fillCount, fillDone, countWrites, fillWrites, oob, entry>>
  /\ QueryOnly

\* a chunk starts its final pass once the chunks before it have their totals
ScanFinalBegin(c) ==
  /\ "scan" \in launched
  /\ scanPass[c] = "reduced"
  /\ \A b \in Chunks : b < c => scanPass[b] \in {"reduced", "final", "done"}
  /\ scanUpd' = [scanUpd EXCEPT ![c] = IF c = 1 THEN 0 ELSE scanTotal[1]]
  /\ scanPos' = [scanPos EXCEPT ![c] = ChunkBegin(c)]
  /\ scanPass' = [scanPass EXCEPT ![c] =
                    IF ChunkBegin(c) = ChunkEnd(c) THEN "done" ELSE "final"]
  /\ UNCHANGED <<n_queries, emit, offset, indices, qpc, launched, initDone,
                 countDone, scanSplit, scanTotal, fillCount, fillDone,
                 countWrites, fillWrites, oob, entry>>
  /\ QueryOnly

\* one call of the scan lambda with final_pass = true
ScanFinalStep(c) ==
  /\ "scan" \in launched
  /\ scanPass[c] = "final"
  /\ scanPos[c] < ChunkEnd(c)
  /\ LET r == ScanBody(offset, scanPos[c], scanUpd[c], TRUE)
         last == (scanPos[c] + 1 = ChunkEnd(c))
     IN  /\ offset' = r.off
         /\ scanUpd' = [scanUpd EXCEPT ![c] = r.update]
         /\ scanPos' = [scanPos EXCEPT ![c] = scanPos[c] + 1]
         /\ scanPass' = [scanPass EXCEPT ![c] = IF last THEN "done" ELSE @]
  /\ UNCHANGED <<n_queries, emit, indices, qpc, launched, initDone, countDone,
                 scanSplit, scanTotal, fillCount, fillDone, countWrites,
                 fillWrites, oob, entry>>
  /\ QueryOnly

\* line 109
FenceScan ==
  /\ qpc = "fence_scan"
  /\ Fence("scan")
  /\ qpc' = "allocate"
  /\ UNCHANGED <<n_queries, emit, offset, indices, launched, initDone, countDone,
                 scanSplit, scanPass, scanPos, scanUpd, scanTotal, fillCount,
                 fillDone, countWrites, fillWrites, oob, entry>>
  /\ QueryOnly

\* lines 115-123: read the total count, Kokkos::resize( indices, total )
AllocateIndices ==
  /\ qpc = "allocate"
  /\ indices' = Resize(indices, TotalCount(offset))
  /\ qpc' = "fill"
  /\ UNCHANGED <<n_queries, emit, offset, launched, initDone, countDone,
                 scanSplit, scanPass, scanPos, scanUpd, scanTotal, fillCount,
                 fillDone, countWrites, fillWrites, oob, entry>>
  /\ QueryOnly

\* lines 124-132: dispatch of the second pass
LaunchFill ==
  /\ qpc = "fill"
  /\ launched' = launched \cup {"fill"}
  /\ qpc' = "fence_fill"
  /\ UNCHANGED <<n_queries, emit, offset, indices, initDone, countDone,
                 scanSplit, scanPass, scanPos, scanUpd, scanTotal, fillCount,
                 fillDone, countWrites, fillWrites, oob, entry>>
  /\ QueryOnly

\* lines 126-131: one call of the appending visitor of iteration i,
\* indices( offset( i ) + count++ ) = index; the iteration completes when
\* the traversal has emitted all its matches
FillStep(i) ==
  /\ "fill" \in launched
  /\ i \in (0..(n_queries - 1)) \ fillDone
  /\ IF fillCount[i] < Len(TraversalEmits(i))
       THEN LET k == fillCount[i]
                index == TraversalEmits(i)[k + 1]
                slot == FillSlot(offset, i, k)
            IN  /\ IF slot \in DOMAIN indices
                     THEN indices' = [indices EXCEPT ![slot] = index]
                     ELSE indices' = indices
                /\ oob' = (oob \/ slot \notin DOMAIN indices)
                /\ fillWrites' = fillWrites \cup
                     {[task |-> i, slot |-> slot, k |-> k, base |-> offset[i],
                       extent |-> Extent(indices)]}
                /\ fillCount' = [fillCount EXCEPT ![i] = k + 1]
                /\ fillDone' = IF k + 1 = Len(TraversalEmits(i))
                                 THEN fillDone \cup {i} ELSE fillDone
       ELSE /\ fillDone' = fillDone \cup {i}
            /\ UNCHANGED <<indices, oob, fillWrites, fillCount>>
  /\ UNCHANGED <<n_queries, emit, offset, qpc, launched, initDone, countDone,
                 scanSplit, scanPass, scanPos, scanUpd, scanTotal, countWrites,
                 entry>>
  /\ QueryOnly

\* line 133
FenceFill ==
  /\ qpc = "fence_fill"
  /\ Fence("fill")
  /\ qpc' = "done"
  /\ UNCHANGED <<n_queries, emit, offset, indices, launched, initDone, countDone,
                 scanSplit, scanPass, scanPos, scanUpd, scanTotal, fillCount,
                 fillDone, countWrites, fillWrites, oob, entry>>
  /\ QueryOnly

QueryNext ==
  \/ ResizeOffset
  \/ LaunchInit
  \/ \E i \in 0..MaxQueries : InitTask(i)
  \/ FenceInit
  \/ LaunchCount
  \/ \E i \in 0..MaxQueries : CountTask(i)
  \/ FenceCount
  \/ LaunchScan
  \/ \E c \in Chunks : ScanReduceStep(c)
  \/ \E c \in Chunks : ScanFinalBegin(c)
  \/ \E c \in Chunks : ScanFinalStep(c)
  \/ FenceScan
  \/ AllocateIndices
  \/ LaunchFill
  \/ \E i \in 0..MaxQueries : FillStep(i)
  \/ FenceFill

(***************************************************************************)
(* size_t, at the model's width.                                           *)
(***************************************************************************)
\* std::numeric_limits<size_t>::max()
MaxSizeT == 2 ^ SizeBits - 1

(***************************************************************************)
(* StaticVector<T, N> and UnmanagedStaticVector<T>.                        *)
(***************************************************************************)
VecValues == 1..NumValues

\* what a storage slot holds before an element is stored into it
Uninit == 0

\* maxSize(): N, or the field _max_size
maxSize == IF v_kind = "owned" THEN StaticN ELSE v_max_size

\* capacity(): N, or the field _max_size
capacity == IF v_kind = "owned" THEN StaticN ELSE v_max_size

\* empty()
empty == (v_size = 0)

\* size()
size == v_size

\* an assertion that lets a push through on a full vector
PushAssertOffByOne(sz, max) == sz <= max

\* KOKKOS_ASSERT(size() < maxSize()) of pushBack and emplaceBack
PushAssert(sz, max) == sz < max

\* an assertion that lets a pop through on an empty vector
PopAssertMissing(sz) == TRUE

\* KOKKOS_ASSERT(size() > 0) of popBack, back and front
NonEmptyAssert(sz) == sz > 0

\* KOKKOS_ASSERT(pos < size()) of operator[]
IndexAssert(pos, sz) == pos < sz

\* _size-- on a size_t
Decrement(sz) == IF sz = 0 THEN MaxSizeT ELSE sz - 1

\* the elements at positions [0, size), oldest first
Elements == [i \in 1..v_size |-> IF (i - 1) \in DOMAIN v_data THEN v_data[i - 1] ELSE Uninit]

VectorInit ==
  /\ v_kind \in {"owned", "borrowed"}
  /\ \E max_size \in 0..MaxCap, ptr_null \in BOOLEAN :
       IF v_kind = "owned"
         THEN \* StaticVector() = default: _size = 0, _data not initialised
              /\ v_max_size = 0
              /\ v_data = [i \in 0..(StaticN - 1) |-> Uninit]
              /\ v_pc = "live"
              /\ v_cap0 = StaticN
         ELSE \* UnmanagedStaticVector( ptr, max_size ):
              \* KOKKOS_ASSERT(ptr != nullptr)
              /\ v_max_size = max_size
              /\ v_data = [i \in 0..(max_size - 1) |-> Uninit]
              /\ v_pc = IF ptr_null THEN "aborted" ELSE "live"
              /\ v_cap0 = max_size
  /\ v_size = 0
  /\ v_last = "construct"
  /\ v_ret = Uninit
  /\ v_past = FALSE
  /\ v_pos = 0
  /\ v_prevop = "none"
  /\ v_model = <<>>
  /\ v_snap = [size |-> 0, elems |-> <<>>]

\* a store one slot too far
StoreSlotNext(sz) == sz + 1

\* the slot a push stores into: _data[_size++] / *(_ptr + _size++)
StoreSlot(sz) == sz

\* the store `_data[_size++] = value` / `*(_ptr + _size++) = value`
Store(value) ==
  /\ IF StoreSlot(v_size) \in DOMAIN v_data
       THEN v_data' = [v_data EXCEPT ![StoreSlot(v_size)] = value] /\ v_past' = v_past
       ELSE v_data' = v_data /\ v_past' = TRUE
  /\ v_size' = v_size + 1

\* pushBack(T const &) and pushBack(T &&)
pushBack(value) ==
  /\ v_pc = "live"
  /\ v_last' = "pushBack"
  /\ v_prevop' = v_last
  /\ IF PushAssert(size, maxSize)
       THEN /\ Store(value)
            /\ v_pc' = v_pc
            /\ v_model' = Append(v_model, value)
            /\ v_snap' = [size |-> v_size, elems |-> Elements]
       ELSE v_pc' = "aborted" /\ UNCHANGED <<v_data, v_size, v_past, v_model, v_snap>>
  /\ UNCHANGED <<v_kind, v_max_size, v_ret, v_cap0, v_pos>>
  /\ VectorOnly

\* emplaceBack(Args&&...): placement new of T(args...) at _data + _size++
emplaceBack(value) ==
  /\ v_pc = "live"
  /\ v_last' = "emplaceBack"
  /\ v_prevop' = v_last
  /\ IF PushAssert(size, maxSize)
       THEN /\ Store(value)
            /\ v_pc' = v_pc
            /\ v_model' = Append(v_model, value)
            /\ v_snap' = [size |-> v_size, elems |-> Elements]
       ELSE v_pc' = "aborted" /\ UNCHANGED <<v_data, v_size, v_past, v_model, v_snap>>
  /\ UNCHANGED <<v_kind, v_max_size, v_ret, v_cap0, v_pos>>
  /\ VectorOnly

\* popBack()
popBack ==
  /\ v_pc = "live"
  /\ v_last' = "popBack"
  /\ v_prevop' = v_last
  /\ IF NonEmptyAssert(size)
       THEN /\ v_size' = Decrement(v_size)
            /\ v_pc' = v_pc
            /\ v_model' = IF v_model = <<>> THEN v_model
                          ELSE SubSeq(v_model, 1, Len(v_model) - 1)
       ELSE v_pc' = "aborted" /\ v_size' = v_size /\ v_model' = v_model
  /\ UNCHANGED <<v_kind, v_max_size, v_data, v_ret, v_past, v_cap0, v_pos, v_snap>>
  /\ VectorOnly

\* clear()
clear ==
  /\ v_pc = "live"
  /\ v_last' = "clear"
  /\ v_prevop' = v_last
  /\ v_size' = 0
  /\ v_model' = <<>>
  /\ UNCHANGED <<v_kind, v_max_size, v_data, v_pc, v_ret, v_past, v_cap0, v_pos,
                 v_snap>>
  /\ VectorOnly

\* a back() that reads one slot too low
BackSlotBelow(sz) == sz - 2

\* the slot back() reads: _data[_size - 1]
BackSlot(sz) == sz - 1

\* back()
back ==
  /\ v_pc = "live"
  /\ v_last' = "back"
  /\ v_prevop' = v_last
  /\ IF NonEmptyAssert(size) /\ BackSlot(v_size) \in DOMAIN v_data
       THEN v_ret' = v_data[BackSlot(v_size)] /\ v_pc' = v_pc
       ELSE v_pc' = "aborted" /\ v_ret' = v_ret
  /\ UNCHANGED <<v_kind, v_max_size, v_size, v_data, v_past, v_cap0, v_pos,
                 v_model, v_snap>>
  /\ VectorOnly

\* front()
front ==
  /\ v_pc = "live"
  /\ v_last' = "front"
  /\ v_prevop' = v_last
  /\ IF NonEmptyAssert(size) /\ 0 \in DOMAIN v_data
       THEN v_ret' = v_data[0] /\ v_pc' = v_pc
       ELSE v_pc' = "aborted" /\ v_ret' = v_ret
  /\ UNCHANGED <<v_kind, v_max_size, v_size, v_data, v_past, v_cap0, v_pos,
                 v_model, v_snap>>
  /\ VectorOnly

\* operator[]( pos )
at(pos) ==
  /\ v_pc = "live"
  /\ v_last' = "at"
  /\ v_prevop' = v_last
  /\ v_pos' = pos
  /\ IF IndexAssert(pos, size) /\ pos \in DOMAIN v_data
       THEN v_ret' = v_data[pos] /\ v_pc' = v_pc
       ELSE v_pc' = "aborted" /\ v_ret' = v_ret
  /\ UNCHANGED <<v_kind, v_max_size, v_size, v_data, v_past, v_cap0, v_model,
                 v_snap>>
  /\ VectorOnly

VectorNext ==
  \/ \E value \in VecValues : pushBack(value)
  \/ \E value \in VecValues : emplaceBack(value)
  \/ popBack
  \/ clear
  \/ back
  \/ front
  \/ \E pos \in 0..(StaticN + MaxCap) : at(pos)

(***************************************************************************)
(* CartesianGrid<DIM>.  Coordinates and cell sizes are floats in the code; *)
(* the model takes them on an integer lattice.                             *)
(***************************************************************************)
\* the template parameter DIM
DIM == 3

Axes == 0..(DIM - 1)

HVals == (-1)..MaxSpacing

\* a float beyond every size_t (delta / h is +inf when h is 0)
Infinity == MaxSizeT + 1

\* the value of the float expression std::ceil(delta / h), for delta > 0
CeilQuotient(delta, h) ==
  IF h = 0 THEN Infinity
  ELSE IF h > 0 THEN (delta + h - 1) \div h
  ELSE -(delta \div (-h))

\* the conversion of a float to size_t: the value when size_t can represent
\* it, anything when it cannot (the conversion is then undefined)
ToSizeT(x) == IF x \in 0..MaxSizeT THEN {x} ELSE 0..MaxSizeT

\* lines 99-108: the values _n[d] can take for an axis
ExtentOutcomes(delta, h) ==
  IF delta # 0 THEN ToSizeT(CeilQuotient(delta, h)) ELSE {1}

\* an overflow check that forgets to divide the limit
DivideLimitSkipped(m, n_prev) == m

\* line 118: m /= _n[d - 1]
DivideLimit(m, n_prev) == m \div n_prev

RECURSIVE OverflowCheckFrom(_, _, _)
\* lines 116-120: the loop from iteration d on, with m as the iteration finds it
OverflowCheckFrom(n, d, m) ==
  IF d >= DIM THEN TRUE
  ELSE LET m2 == DivideLimit(m, n[d - 1])
       IN  n[d] < m2 /\ OverflowCheckFrom(n, d + 1, m2)

\* lines 114-120
OverflowCheck(n) == OverflowCheckFrom(n, 1, MaxSizeT)

\* extent( d )
extent(d) == g_n[d]

Boxes ==
  {[min |-> [d \in Axes |-> 0], max |-> mx] : mx \in [Axes -> 0..MaxDelta]}

Unset == [d \in Axes |-> 0]

GridInit ==
  /\ g_pc = "new"
  /\ g_ctor \in {"scalar", "per_axis"}
  /\ g_bounds \in Boxes
  /\ \/ g_ctor = "scalar" /\ g_arg \in {[d \in Axes |-> h] : h \in HVals}
     \/ g_ctor = "per_axis" /\ g_arg \in [Axes -> HVals]
  /\ g_h = Unset
  /\ g_n = Unset
  /\ g_d = 0
  /\ g_op = "none"
  /\ g_point = Unset
  /\ g_index = 0
  /\ g_box = [min |-> Unset, max |-> Unset]

\* lines 34-41: CartesianGrid(Box const &bounds, float h)
CtorScalar ==
  /\ g_pc = "new"
  /\ g_ctor = "scalar"
  /\ IF g_arg[0] > 0
       THEN g_h' = g_arg /\ g_pc' = "build"
       ELSE g_h' = g_h /\ g_pc' = "failed"
  /\ UNCHANGED <<g_ctor, g_bounds, g_arg, g_n, g_d, g_op, g_point, g_index, g_box>>
  /\ GridOnly

\* lines 42-51: CartesianGrid(Box const &bounds, float const h[DIM]).  Each
\* iteration asserts on _h[d] before it assigns it, so the assertion reads an
\* indeterminate value: it can pass or fail whatever h[d] is.
CtorPerAxis ==
  /\ g_pc = "new"
  /\ g_ctor = "per_axis"
  /\ \E passes \in BOOLEAN :
       IF passes
         THEN g_h' = g_arg /\ g_pc' = "build"
         ELSE g_h' = g_h /\ g_pc' = "failed"
  /\ UNCHANGED <<g_ctor, g_bounds, g_arg, g_n, g_d, g_op, g_point, g_index, g_box>>
  /\ GridOnly

\* lines 97-109: one iteration of buildGrid's first loop
BuildAxis ==
  /\ g_pc = "build"
  /\ g_d < DIM
  /\ LET delta == g_bounds.max[g_d] - g_bounds.min[g_d]
     IN  \E n \in ExtentOutcomes(delta, g_h[g_d]) :
           IF n > 0
             THEN /\ g_n' = [g_n EXCEPT ![g_d] = n]
                  /\ g_d' = g_d + 1
                  /\ g_pc' = IF g_d + 1 = DIM THEN "check" ELSE "build"
             ELSE /\ g_pc' = "failed"
                  /\ UNCHANGED <<g_n, g_d>>
  /\ UNCHANGED <<g_ctor, g_bounds, g_arg, g_h, g_op, g_point, g_index, g_box>>
  /\ GridOnly

\* lines 111-120: buildGrid's overflow check
CheckOverflow ==
  /\ g_pc = "check"
  /\ g_pc' = IF OverflowCheck(g_n) THEN "constructed" ELSE "failed"
  /\ UNCHANGED <<g_ctor, g_bounds, g_arg, g_h, g_n, g_d, g_op, g_point, g_index,
                 g_box>>
  /\ GridOnly

\* the points handed to cellIndex
Points == [Axes -> 0..MaxDelta]

\* line 63: the values `int i = KokkosExt::floor(x / h)` can take.  x / 0 is
\* an infinity or a NaN, whose conversion to int is undefined: every residue
\* modulo 2^SizeBits can then enter s.
FloorQuotient(x, h) ==
  IF h = 0 THEN 0..MaxSizeT
  ELSE IF h > 0 THEN {x \div h}
  ELSE {(-x) \div (-h)}

RECURSIVE cellIndexFrom(_, _, _)
\* lines 60-65: the loop from iteration d down, with s as the iteration finds
\* it; size_t arithmetic wraps
cellIndexFrom(point, d, s) ==
  IF d < 0 THEN {s}
  ELSE UNION {cellIndexFrom(point, d - 1, (s * g_n[d] + i) % (MaxSizeT + 1)) :
                i \in FloorQuotient(point[d] - g_bounds.min[d], g_h[d])}

\* lines 54-67: the values cellIndex( point ) can return
cellIndex(point) == cellIndexFrom(point, DIM - 1, 0)

RECURSIVE CellIndexAt(_, _)
\* lines 74-77: cell_index at the start of iteration d of cellBox's loop
CellIndexAt(cell_index, d) ==
  IF d = 0 THEN cell_index ELSE CellIndexAt(cell_index, d - 1) \div g_n[d - 1]

\* lines 70-83: cellBox( cell_index )
cellBox(cell_index) ==
  [min |-> [d \in Axes |->
              g_bounds.min[d] + (CellIndexAt(cell_index, d) % g_n[d]) * g_h[d]],
   max |-> [d \in Axes |->
              g_bounds.min[d] + ((CellIndexAt(cell_index, d) % g_n[d]) + 1) * g_h[d]]]

\* a call of cellIndex on the constructed grid (the member functions are
\* const: one call per grid shows every call)
CallCellIndex ==
  /\ g_pc = "constructed"
  /\ g_op = "none"
  /\ \E point \in Points :
       /\ g_point' = point
       /\ g_index' \in cellIndex(point)
  /\ g_op' = "cellIndex"
  /\ g_box' = [min |-> Unset, max |-> Unset]
  /\ UNCHANGED <<g_pc, g_ctor, g_bounds, g_arg, g_h, g_n, g_d>>
  /\ GridOnly

\* a call of cellBox on the constructed grid
CallCellBox ==
  /\ g_pc = "constructed"
  /\ g_op = "none"
  /\ \E cell_index \in 0..MaxSizeT :
       /\ g_index' = cell_index
       /\ g_box' = cellBox(cell_index)
  /\ g_op' = "cellBox"
  /\ g_point' = Unset
  /\ UNCHANGED <<g_pc, g_ctor, g_bounds, g_arg, g_h, g_n, g_d>>
  /\ GridOnly

GridNext ==
  \/ CtorScalar
  \/ CtorPerAxis
  \/ BuildAxis
  \/ CheckOverflow
  \/ CallCellIndex
  \/ CallCellBox

(***************************************************************************)
(* The example driver: main and main_.                                     *)
(***************************************************************************)
\* command lines: well-formed, asking for help, with a malformed --node,
\* with a malformed value for an option of main_, with an unknown option
ArgvKinds == {"ok", "help", "bad_node", "bad_value", "unknown"}

NodeNames == {"", "serial", "openmp", "cuda", "other"}

ModeNames == {"radius", "knn", "other"}

\* line 298: main's parse, which knows --node only and, as
\* recogniseAllOptions( false ), skips the options it does not know
ParseMain(kind) ==
  CASE kind = "bad_node" -> "PARSE_ERROR"
    [] kind = "help"     -> "PARSE_HELP_PRINTED"
    [] OTHER             -> "PARSE_SUCCESSFUL"

\* line 159: main_'s parse, which knows every option
ParseMain_(kind) ==
  CASE kind = "bad_value" -> "PARSE_ERROR"
    [] kind = "bad_node"  -> "PARSE_ERROR"
    [] kind = "help"      -> "PARSE_HELP_PRINTED"
    [] kind = "unknown"   -> "PARSE_UNRECOGNIZED_OPTION"
    [] OTHER              -> "PARSE_SUCCESSFUL"

\* lines 308-346: whether the node type named by --node leads to main_
NodeRuns(node) == node = "" \/ node \in d_enabled

\* lines 209-276: the search main_ runs for a value of --mode
SearchRun(mode) ==
  IF mode = "knn" THEN "knn" ELSE IF mode = "radius" THEN "radius" ELSE "none"

EXIT_SUCCESS == 0

EXIT_FAILURE == 1

DriverInit ==
  /\ d_pc = "start"
  /\ d_argv \in [kind : ArgvKinds, node : NodeNames, mode : ModeNames]
  /\ d_enabled \in SUBSET {"serial", "openmp", "cuda"}
  /\ d_fault \in BOOLEAN
  /\ d_initialized = FALSE
  /\ d_finalized = FALSE
  /\ d_success = FALSE
  /\ d_ran = "none"
  /\ d_exit = -1

\* lines 283-288: success = false; Kokkos::initialize()
Initialize ==
  /\ d_pc = "start"
  /\ d_initialized' = TRUE
  /\ d_success' = FALSE
  /\ d_pc' = "parse"
  /\ UNCHANGED <<d_argv, d_enabled, d_fault, d_finalized, d_ran, d_exit>>
  /\ DriverOnly

\* lines 297-306: PARSE_ERROR returns EXIT_FAILURE, the others go on
ParseNode ==
  /\ d_pc = "parse"
  /\ IF ParseMain(d_argv.kind) = "PARSE_ERROR"
       THEN d_exit' = EXIT_FAILURE /\ d_pc' = "exited"
       ELSE d_exit' = d_exit /\ d_pc' = "select"
  /\ UNCHANGED <<d_argv, d_enabled, d_fault, d_initialized, d_finalized,
                 d_success, d_ran>>
  /\ DriverOnly

\* lines 308-346: `return main_<Node>( clp, argc, argv )` for the default
\* node and for an enabled node type; a disabled or unknown one throws
SelectNode ==
  /\ d_pc = "select"
  /\ d_pc' = IF NodeRuns(d_argv.node) THEN "main_" ELSE "catch"
  /\ UNCHANGED <<d_argv, d_enabled, d_fault, d_initialized, d_finalized,
                 d_success, d_ran, d_exit>>
  /\ DriverOnly

\* lines 158-168 of main_, whose return value main returns at once
ParseOptions ==
  /\ d_pc = "main_"
  /\ LET r == ParseMain_(d_argv.kind)
     IN  CASE r = "PARSE_HELP_PRINTED" -> d_exit' = EXIT_SUCCESS /\ d_pc' = "exited"
           [] r \in {"PARSE_ERROR", "PARSE_UNRECOGNIZED_OPTION"} ->
                d_exit' = EXIT_FAILURE /\ d_pc' = "exited"
           [] OTHER -> d_exit' = d_exit /\ d_pc' = "run"
  /\ UNCHANGED <<d_argv, d_enabled, d_fault, d_initialized, d_finalized,
                 d_success, d_ran>>
  /\ DriverOnly

\* lines 170-278 of main_: build the tree, then `if ( mode == "knn" ) ...
\* else if ( mode == "radius" ) ...`, with no else; `return 0`.  An exception
\* thrown on the way reaches the catch statements of main.
RunQueries ==
  /\ d_pc = "run"
  /\ IF d_fault
       THEN d_exit' = d_exit /\ d_ran' = d_ran /\ d_pc' = "catch"
       ELSE /\ d_ran' = SearchRun(d_argv.mode)
            /\ d_exit' = 0
            /\ d_pc' = "exited"
  /\ UNCHANGED <<d_argv, d_enabled, d_fault, d_initialized, d_finalized, d_success>>
  /\ DriverOnly

\* lines 349-351: TEUCHOS_STANDARD_CATCH_STATEMENTS sets success = false;
\* return ( success ? EXIT_SUCCESS : EXIT_FAILURE )
CatchAndReturn ==
  /\ d_pc = "catch"
  /\ d_success' = FALSE
  /\ d_exit' = IF d_success' THEN EXIT_SUCCESS ELSE EXIT_FAILURE
  /\ d_pc' = "exited"
  /\ UNCHANGED <<d_argv, d_enabled, d_fault, d_initialized, d_finalized, d_ran>>
  /\ DriverOnly

DriverNext ==
  \/ Initialize
  \/ ParseNode
  \/ SelectNode
  \/ ParseOptions
  \/ RunQueries
  \/ CatchAndReturn

(***************************************************************************)
(* The specifications.                                                     *)
(***************************************************************************)
QueryIdle ==
  /\ n_queries = 0
  /\ emit = <<>>
  /\ offset = <<>>
  /\ indices = <<>>
  /\ qpc = "idle"
  /\ launched = {}
  /\ initDone = {}
  /\ countDone = {}
  /\ scanSplit = 0
  /\ scanPass = <<>>
  /\ scanPos = <<>>
  /\ scanUpd = <<>>
  /\ scanTotal = <<>>
  /\ fillCount = <<>>
  /\ fillDone = {}
  /\ countWrites = {}
  /\ fillWrites = {}
  /\ oob = FALSE
  /\ entry = <<>>

VectorIdle ==
  /\ v_kind = "none"
  /\ v_max_size = 0
  /\ v_size = 0
  /\ v_data = <<>>
  /\ v_pc = "idle"
  /\ v_last = "none"
  /\ v_ret = Uninit
  /\ v_past = FALSE
  /\ v_cap0 = 0
  /\ v_pos = 0
  /\ v_prevop = "none"
  /\ v_model = <<>>
  /\ v_snap = <<>>

GridIdle ==
  /\ g_pc = "idle"
  /\ g_ctor = "none"
  /\ g_bounds = <<>>
  /\ g_arg = <<>>
  /\ g_h = <<>>
  /\ g_n = <<>>
  /\ g_d = 0
  /\ g_op = "none"
  /\ g_point = <<>>
  /\ g_index = 0
  /\ g_box = <<>>

DriverIdle ==
  /\ d_pc = "idle"
  /\ d_argv = <<>>
  /\ d_enabled = {}
  /\ d_fault = FALSE
  /\ d_initialized = FALSE
  /\ d_finalized = FALSE
  /\ d_success = FALSE
  /\ d_ran = "none"
  /\ d_exit = -1

InitQuery == QueryInit /\ VectorIdle /\ GridIdle /\ DriverIdle

SpecQuery == InitQuery /\ [][QueryNext]_vars

InitVector == VectorInit /\ QueryIdle /\ GridIdle /\ DriverIdle

SpecVector == InitVector /\ [][VectorNext]_vars

InitGrid == GridInit /\ QueryIdle /\ VectorIdle /\ DriverIdle

SpecGrid == InitGrid /\ [][GridNext]_vars

InitDriver == DriverInit /\ QueryIdle /\ VectorIdle /\ GridIdle

SpecDriver == InitDriver /\ [][DriverNext]_vars

(***************************************************************************)
(* Properties of query().                                                  *)
(***************************************************************************)
RECURSIVE PrefixCount(_)
\* the number of matches of the queries before q
PrefixCount(q) == IF q = 0 THEN 0 ELSE PrefixCount(q - 1) + Len(emit[q - 1])

RECURSIVE FlatEmit(_)
\* the matches of the queries before q, one query after the other
FlatEmit(q) == IF q = 0 THEN <<>> ELSE FlatEmit(q - 1) \o emit[q - 1]

\* C1: when query() has returned, offset has extent Q+1, offset[0] = 0,
\* offset is non-decreasing and offset[Q] is the extent of indices.
C1_CSRInvariant ==
  qpc = "done" =>
    /\ DOMAIN offset = 0..n_queries
    /\ Extent(offset) = n_queries + 1
    /\ offset[0] = 0
    /\ \A q \in 0..(n_queries - 1) : offset[q] <= offset[q + 1]
    /\ offset[n_queries] = Extent(indices)

\* query() returned for two queries, the first without a match, the second
\* with matches, on caller views that were not empty
C1_Witness ==
  /\ qpc = "done"
  /\ entry.offset = 3
  /\ entry.indices = 3
  /\ n_queries = 2
  /\ Len(emit[0]) = 0
  /\ Len(emit[1]) = 2
  /\ offset[2] = 2

\* C2: when query() has returned, the slice indices[offset[q] .. offset[q+1])
\* is, for every query q, the sequence the traversal emits for q, in order.
C2_SlicesAreEmissions ==
  qpc = "done" =>
    \A q \in 0..(n_queries - 1) :
      /\ offset[q + 1] - offset[q] = Len(emit[q])
      /\ \A k \in 1..Len(emit[q]) :
           /\ (offset[q] + k - 1) \in DOMAIN indices
           /\ indices[offset[q] + k - 1] = emit[q][k]

\* query() returned for two queries that emit different, ordered matches
C2_Witness ==
  /\ qpc = "done"
  /\ n_queries = 2
  /\ emit[0] = <<1, 0>>
  /\ emit[1] = <<0, 1>>
  /\ indices = [s \in 0..3 |-> IF s \in {0, 3} THEN 1 ELSE 0]

\* C3: every slot has a single writer: the first pass stores into offset[q]
\* from the task of q only; the second pass stores into each slot of indices
\* exactly once, from the task whose range [offset[q], offset[q+1]) holds the
\* slot; no task stores outside its range or outside a view.
C3_SingleWriter ==
  /\ ~oob
  /\ \A w \in countWrites : w.slot = w.task /\ w.slot \in DOMAIN offset
  /\ \A w \in fillWrites :
       /\ w.slot \in DOMAIN indices
       /\ offset[w.task] <= w.slot
       /\ w.slot < offset[w.task + 1]
  /\ \A w1, w2 \in fillWrites : w1.slot = w2.slot => w1 = w2
  /\ qpc = "done" => \A s \in DOMAIN indices : \E w \in fillWrites : w.slot = s

\* both tasks of the second pass are half way through their stores
C3_Witness ==
  /\ n_queries = 2
  /\ Len(emit[0]) = 2
  /\ Len(emit[1]) = 2
  /\ fillCount[0] = 1
  /\ fillCount[1] = 1
  /\ Cardinality(fillWrites) = 2
  /\ Cardinality(countWrites) = 2

\* C8: the kernels are separated by barriers: a kernel is dispatched only
\* when every task of the kernel before it has completed; every store of the
\* second pass read the final (scanned) value of offset[q] and happened
\* after indices had been resized to offset[Q].
C8_PhaseBarriers ==
  /\ "count" \in launched => AllDone("init")
  /\ "scan" \in launched => AllDone("count")
  /\ "fill" \in launched =>
       /\ AllDone("scan")
       /\ Extent(indices) = offset[n_queries]
  /\ \A w \in fillWrites :
       /\ w.base = PrefixCount(w.task)
       /\ w.extent = PrefixCount(n_queries)

\* a task of the second pass has stored while another has not started
C8_Witness ==
  /\ n_queries = 2
  /\ Len(emit[0]) = 1
  /\ fillCount[1] = 1
  /\ fillCount[0] = 0
  /\ \E w \in fillWrites : w.task = 1 /\ w.base = 1

\* C9: when the first step of query() (resize, "set all entries to zero",
\* fence) has completed, offset has extent Q+1 and all its entries are 0.
C9_OffsetZeroed ==
  qpc = "count" =>
    /\ DOMAIN offset = 0..n_queries
    /\ \A i \in 0..n_queries : offset[i] = 0

\* C10: the views query() returns are a function of the traversal's results
\* alone: they do not depend on the interleaving of the tasks, on the split
\* of the scan, nor on what the caller's views held on entry.
C10_Deterministic ==
  qpc = "done" =>
    /\ offset = [q \in 0..n_queries |-> PrefixCount(q)]
    /\ indices = [s \in 0..(Len(FlatEmit(n_queries)) - 1) |->
                    FlatEmit(n_queries)[s + 1]]

\* query() returned on caller views longer than the result, the scan having
\* been split in two non-empty chunks
C10_Witness ==
  /\ qpc = "done"
  /\ entry.offset = 3
  /\ entry.indices = 3
  /\ n_queries = 2
  /\ scanSplit = 1
  /\ Len(emit[0]) = 1
  /\ Len(emit[1]) = 1
  /\ Extent(indices) = 2

(***************************************************************************)
(* Properties of the vectors.                                              *)
(***************************************************************************)
\* C4: for the owned and for the borrowed vector, after any sequence of
\* pushBack, emplaceBack, popBack and clear, 0 <= size() <= capacity(),
\* empty() holds exactly when size() = 0, and capacity() and maxSize() are
\* the value fixed at compile time (N) or at construction (max_size).
C4_SizeWithinCapacity ==
  v_pc \in {"live", "aborted"} =>
    /\ 0 <= size
    /\ size <= capacity
    /\ empty <=> (size = 0)
    /\ capacity = v_cap0
    /\ maxSize = v_cap0

\* a borrowed vector filled to its capacity, then popped once
C4_Witness ==
  /\ v_kind = "borrowed"
  /\ v_pc = "live"
  /\ v_cap0 = 2
  /\ v_last = "popBack"
  /\ v_size = 1
  /\ v_data[1] # Uninit

\* C5: a pushBack or emplaceBack on a vector whose size() is maxSize() fails
\* its assertion: it stores nothing, past the end or elsewhere, and leaves
\* size() as it was; so does every push on a borrowed vector of max_size 0.
C5_PushOnFullFailsFast ==
  [][(/\ v_pc = "live"
      /\ size = maxSize
      /\ v_last' \in {"pushBack", "emplaceBack"})
       => (/\ v_pc' = "aborted"
           /\ v_size' = v_size
           /\ v_data' = v_data
           /\ ~v_past')]_vars

\* a push was attempted on a borrowed vector constructed with max_size 0
C5_Witness ==
  /\ v_kind = "borrowed"
  /\ v_max_size = 0
  /\ v_last = "pushBack"
  /\ v_pc = "aborted"
  /\ v_size = 0

\* C11: the vectors are LIFO stacks.  After any sequence of valid operations
\* the elements at [0, size()) are the pushed values that survive, oldest
\* first: back() returns the most recent one, operator[](i) the (i+1)-th,
\* front() the oldest; and pushBack(v) followed at once by popBack() restores
\* the size and the elements at [0, size) of before the push.
C11_LifoStack ==
  v_pc = "live" =>
    /\ Elements = v_model
    /\ v_last = "back" => v_ret = v_model[Len(v_model)]
    /\ v_last = "front" => v_ret = v_model[1]
    /\ v_last = "at" => v_ret = v_model[v_pos + 1]
    /\ (v_last = "popBack" /\ v_prevop \in {"pushBack", "emplaceBack"}) =>
         /\ v_size = v_snap.size
         /\ Elements = v_snap.elems

\* a value was pushed on top of another and popped again, and the popped
\* value is still in the storage, beyond size()
C11_Witness ==
  /\ v_pc = "live"
  /\ v_last = "popBack"
  /\ v_prevop = "pushBack"
  /\ v_model = <<2>>
  /\ v_snap = [size |-> 1, elems |-> <<2>>]
  /\ v_data[1] = 1

(***************************************************************************)
(* Properties of the grid.                                                 *)
(***************************************************************************)
RECURSIVE CellsUpTo(_)
\* extent(0) * ... * extent(d - 1), as a mathematical integer
CellsUpTo(d) == IF d = 0 THEN 1 ELSE CellsUpTo(d - 1) * extent(d - 1)

\* C6: whenever the construction of a grid succeeds, the product of the
\* per-axis cell counts extent(0) * ... * extent(DIM-1) is at most the
\* largest size_t.
C6_NoCellCountOverflow ==
  g_pc = "constructed" => CellsUpTo(DIM) <= MaxSizeT

\* a grid with more than one cell along two axes was constructed
C6_Witness ==
  /\ g_pc = "constructed"
  /\ g_ctor = "scalar"
  /\ extent(1) = 2
  /\ extent(2) = 2
  /\ CellsUpTo(DIM) = 4

\* C12: both constructors reject a non-positive cell size before building
\* the grid: once a constructor has run, an input with some spacing <= 0 has
\* failed the constructor's assertion (no extent was computed), and an input
\* whose spacings are all positive has not failed it.
C12_CtorsRejectNonPositive ==
  g_pc \notin {"idle", "new"} =>
    /\ (\E d \in Axes : g_arg[d] <= 0) => (g_pc = "failed" /\ g_n = Unset)
    /\ (\A d \in Axes : g_arg[d] > 0) => ~(g_pc = "failed" /\ g_h = Unset)

\* the point lies in the bounds the grid was built for
InBounds(point) ==
  \A d \in Axes : g_bounds.min[d] <= point[d] /\ point[d] <= g_bounds.max[d]

\* the box contains the point
Contains(box, point) ==
  \A d \in Axes : box.min[d] <= point[d] /\ point[d] <= box.max[d]

\* C13: on a constructed grid, a point p inside the bounds (both corners
\* included) has cellIndex(p) below the cell count extent(0) * ... *
\* extent(DIM-1) and lies in cellBox(cellIndex(p)); and for a cell index c
\* below the cell count, cellIndex of the min corner of cellBox(c) is c.
C13_CellIndexCellBox ==
  g_pc = "constructed" =>
    /\ (g_op = "cellIndex" /\ InBounds(g_point)) =>
         /\ g_index < CellsUpTo(DIM)
         /\ Contains(cellBox(g_index), g_point)
    /\ (g_op = "cellBox" /\ g_index < CellsUpTo(DIM)) =>
         cellIndex(g_box.min) = {g_index}

(***************************************************************************)
(* Properties of the driver.                                               *)
(***************************************************************************)
\* the command line is in error: a parse fails, an option is unknown, or
\* (on a command line that parses and does not ask for help) --mode is
\* neither radius nor knn
ArgumentError ==
  \/ ParseMain(d_argv.kind) = "PARSE_ERROR"
  \/ ParseMain_(d_argv.kind) \in {"PARSE_ERROR", "PARSE_UNRECOGNIZED_OPTION"}
  \/ /\ ParseMain_(d_argv.kind) = "PARSE_SUCCESSFUL"
     /\ d_argv.mode \notin {"radius", "knn"}

\* --node names a node type the build disables, or no node type at all
BackendUnavailable ==
  d_argv.node \notin ({""} \cup d_enabled)

\* C7: the driver exits with code 0 on a successful run and with a non-zero
\* code on every argument error (parse error, unrecognized option, a --mode
\* that is neither radius nor knn) and whenever the backend named by --node
\* is unavailable or unrecognized.
C7_ExitCodes ==
  d_pc = "exited" =>
    /\ (~ArgumentError /\ ~BackendUnavailable /\ ~d_fault
          /\ d_argv.kind = "ok") => d_exit = 0
    /\ (ArgumentError \/ BackendUnavailable) => d_exit # 0

\* C14: on every path of main on which Kokkos::initialize has been called
\* (successful run, help, parse error, unavailable or unrecognized node,
\* exception), Kokkos::finalize has been called when main returns.
C14_FinalizeBeforeReturn ==
  (d_pc = "exited" /\ d_initialized) => d_finalized

====
